---- MODULE Spec2Model ----
(***************************************************************************)
(* SoupaWhisper (src/dictate.py): push-to-talk dictation daemon.           *)
(*                                                                         *)
(* One Dictation object is shared by the model loader thread (_load_model) *)
(* and by one monitor_device thread per keyboard.  start_recording and     *)
(* stop_recording run on whichever monitor thread read the key event; the  *)
(* object has no lock, so the threads interleave between the accesses to   *)
(* the fields of self.  A step of the model is a run of statements with    *)
(* accesses to shared state (self, the file system, a child process) at    *)
(* one point in time; consecutive reads of the same field are one step     *)
(* only where the second read adds no behaviour (lines 667 and 428, 673    *)
(* and 457, 462 and 466, 499 and 505).                                     *)
(*                                                                         *)
(* Strings that the code computes with (segment texts, the clipboard text) *)
(* are sequences of one-character strings.                                 *)
(* Environment: the capture child, the file system, the transcription      *)
(* service, wl-copy, the typing tool and notify-send.  Whether notify-send *)
(* can be started (notifyOk) and AUTO_TYPE are fixed for a run.  Writes to *)
(* stdout (print) are taken to succeed.                                    *)
(*                                                                         *)
(* Sessions.  The code has no session object: a session is one pass of     *)
(* start_recording beyond its guard, numbered in the order of line 431;    *)
(* the scratch file and the capture child it creates carry its number.     *)
(* Its stage is Recording from line 431, Stopping from line 460 of the     *)
(* stop_recording pass that takes it (the session that set the flag last), *)
(* Transcribing from line 484, Done in the finally block of lines 628-631  *)
(* and Idle when that pass has left stop_recording.                        *)
(*                                                                         *)
(* Startup.  SpecStartup runs the module-level tool detection (lines       *)
(* 100-237), main (lines 760-804) and Dictation.__init__ (lines 359-385)   *)
(* for every configuration and PATH; Spec starts where main has reached    *)
(* run_evdev_hotkey, whose main thread joins the monitor threads.          *)
(***************************************************************************)
EXTENDS Integers, Sequences, FiniteSets, TLC

\* ---- bounds ----
NumStreams == 2      \* keyboard devices, one monitor_device thread each
MaxSessions == 2     \* presses the environment delivers that can start a session
MaxSegs == 2         \* segments in one transcription result (text pipeline)
MaxSegLen == 2       \* characters in one segment (text pipeline)
MaxDevices == 3      \* input devices list_devices() returns (keyboard discovery)
MaxLiveSessions == 1 \* sessions begun in a behaviour checked for progress

None == "None"
Streams == 1..NumStreams
Sessions == 1..MaxSessions

\* ---- strings as sequences of characters ----
Whitespace == {" ", "\n"}
Chars == {"a"} \cup Whitespace
RECURSIVE SeqsUpTo(_, _)
SeqsUpTo(S, n) ==
    IF n = 0 THEN {<<>>}
    ELSE LET shorter == SeqsUpTo(S, n - 1)
         IN shorter \cup {Append(s, x) : s \in {q \in shorter : Len(q) = n - 1}, x \in S}
SegTexts == SeqsUpTo(Chars, MaxSegLen)
SegLists == SeqsUpTo(SegTexts, MaxSegs)

\* str.lstrip() / str.rstrip() / str.strip(): drop whitespace at the ends
RECURSIVE lstrip(_)
lstrip(s) == IF s # <<>> /\ Head(s) \in Whitespace THEN lstrip(Tail(s)) ELSE s
RECURSIVE rstrip(_)
rstrip(s) ==
    IF s # <<>> /\ s[Len(s)] \in Whitespace THEN rstrip(SubSeq(s, 1, Len(s) - 1)) ELSE s
\* variant: only the leading whitespace is dropped
stripLeading(s) == lstrip(s)
strip(s) == rstrip(lstrip(s))

\* " ".join(parts): the parts with the separator between neighbours
RECURSIVE join(_, _)
join(sep, parts) ==
    IF parts = <<>> THEN <<>>
    ELSE IF Len(parts) = 1 THEN parts[1]
    ELSE parts[1] \o sep \o join(sep, Tail(parts))

\* line 534: text = " ".join(segment.text.strip() for segment in segments)
JoinSegments(segments) == join(<<" ">>, [i \in 1..Len(segments) |-> strip(segments[i])])

\* Python truth value of an Optional[str]: None and "" are both false
Truthy(x) == x # None /\ x # ""
\* Optional[Popen] / temp file object: 0 stands for None, a session number
\* names the child spawned / the file created by that session's start_recording
NoProc == 0
NoFile == 0
\* nothing written to the clipboard yet
NoClip == <<>>

\* ---- what the environment can answer ----
\* str(e) of the exception WhisperModel(...) raised (line 398): the message of
\* the loader's exception, with or without the substring tested at line 401
Reasons == {"CUDA failed", "invalid model size"}
\* results of model.transcribe consumed at line 534, as used by the sessions
SessionSegLists == { <<>>, << <<" ", "a">> >>, << <<" ">>, <<>> >> }

\* how a run of the typing tool ends (lines 544-610)
InjectResults == {"ok", "exit_nonzero", "raised"}

\* status texts the handlers surface (print / notify)
MsgModelFailed == "Model failed to load"
MsgUninit == "Model or temp file not initialized"
MsgMissing == "Recording file not found"
MsgEmpty == "Recording file is empty"
MsgCopied == "Copied!"
MsgNoSpeech == "No speech detected"
MsgError == "Error"
NoOutcome == "-"

VARIABLES
    \* Dictation fields (lines 351-357)
    recording, record_process, temp_file, model, model_loaded, model_error,
    \* module-level configuration and tools
    AUTO_TYPE, notifyOk,
    \* _load_model thread position
    loader,
    \* monitor_device threads: position and locals of the running handler
    pc, temp_file_path, segments, outcome, did,
    \* environment: files by name, capture children, clipboard content
    fs, proc, procFile, clipboard,
    \* sessions: one per pass of start_recording beyond its guard
    nsessions, cur, mine, stage, returned,
    \* run_evdev_hotkey on the main thread: monitor threads joined so far
    joined,
    \* text pipeline in isolation (lines 534-539)
    tpc, tsegments, ttext, tclipboard,
    \* startup: configuration and system the process finds (config_backend,
    \* executables on PATH, KWin, dotoold, what _load_evdev_keyboard meets),
    \* position of the startup code, index of the auto-detection loop, the
    \* committed tools, whether the warning of line 115 was printed, exit code
    config_backend, onPath, kwin, dotoold, evdev, spc, idx,
    AUDIO_BACKEND, CLIPBOARD_TOOL, TYPING_TOOL, warned, exit_code,
    \* keyboard discovery (_load_evdev_keyboard): the devices found, the
    \* configured hint, the list being built, the devices monitored, position
    devices, preferred_keyboard, keyboards, monitored, dpc

sessionVars == <<recording, record_process, temp_file, model, model_loaded, model_error,
                 AUTO_TYPE, notifyOk, loader, pc, temp_file_path, segments, outcome, did,
                 fs, proc, procFile, clipboard, nsessions, cur, mine, stage, returned,
                 joined>>
textVars == <<tpc, tsegments, ttext, tclipboard>>
startupVars == <<config_backend, onPath, kwin, dotoold, evdev, spc, idx,
                 AUDIO_BACKEND, CLIPBOARD_TOOL, TYPING_TOOL, warned, exit_code>>
discoverVars == <<devices, preferred_keyboard, keyboards, monitored, dpc>>
vars == <<sessionVars, textVars, startupVars, discoverVars>>

\* Dictation.__init__ (lines 351-357, 385): the loader thread is started
InitSession ==
    /\ recording = FALSE
    /\ record_process = NoProc
    /\ temp_file = NoFile
    /\ model = None
    /\ model_loaded = FALSE
    /\ model_error = None
    /\ AUTO_TYPE \in BOOLEAN
    /\ notifyOk \in BOOLEAN
    /\ loader = "load"
    /\ pc = [t \in Streams |-> "loop"]
    /\ temp_file_path = [t \in Streams |-> NoFile]
    /\ segments = [t \in Streams |-> <<>>]
    /\ outcome = [t \in Streams |-> NoOutcome]
    /\ did = [t \in Streams |-> {}]
    /\ fs = [f \in Sessions |-> "absent"]
    /\ proc = [p \in Sessions |-> "none"]
    /\ procFile = [p \in Sessions |-> NoFile]
    /\ clipboard = NoClip
    /\ nsessions = 0
    /\ cur = 0
    /\ mine = [t \in Streams |-> 0]
    /\ stage = [s \in Sessions |-> "Idle"]
    /\ returned = {}
    /\ joined = 0

TextIdle ==
    /\ tpc = "off"
    /\ tsegments = <<>>
    /\ ttext = <<>>
    /\ tclipboard = NoClip

\* the daemon is past its startup: main has reached line 804
StartupDone ==
    /\ config_backend = "auto"
    /\ onPath = {"parecord", "wl-copy", "dotool"}
    /\ kwin = TRUE
    /\ dotoold = "running"
    /\ evdev = "ok"
    /\ spc = "monitoring"
    /\ idx = 1
    /\ AUDIO_BACKEND = "parecord"
    /\ CLIPBOARD_TOOL = "wl-copy"
    /\ TYPING_TOOL = "dotool"
    /\ warned = FALSE
    /\ exit_code = 0

\* no keyboard discovery is running
DiscoverDone ==
    /\ devices = <<>>
    /\ preferred_keyboard = <<>>
    /\ keyboards = <<>>
    /\ monitored = <<>>
    /\ dpc = "off"

Init == InitSession /\ TextIdle /\ StartupDone /\ DiscoverDone

\* ---- Dictation._load_model (lines 387-404), on its own thread ----
\* line 389: WhisperModel(...) returns and the handle is stored
LoadModelOk ==
    /\ loader = "load"
    /\ model' = "WhisperModel"
    /\ loader' = "ready"
    /\ UNCHANGED model_loaded
    /\ UNCHANGED model_error

\* line 392: self.model_loaded.set() on the success path
LoadModelSignal ==
    /\ loader = "ready"
    /\ model_loaded' = TRUE
    /\ loader' = "done"
    /\ UNCHANGED model
    /\ UNCHANGED model_error

\* variant: the except clause also runs for an exception raised after the
\* handle was stored
LoadModelFailLate ==
    /\ loader \in {"load", "ready"}
    /\ \E r \in Reasons : model_error' = r
    /\ loader' = "failed"
    /\ UNCHANGED model
    /\ UNCHANGED model_loaded

\* lines 397-398: WhisperModel(...) raised, self.model_error = str(e)
LoadModelFail ==
    /\ loader = "load"
    /\ \E r \in Reasons : model_error' = r
    /\ loader' = "failed"
    /\ UNCHANGED model
    /\ UNCHANGED model_loaded

\* variant: the failure path ends without setting the readiness signal
LoadModelFailNoSignal ==
    /\ loader = "failed"
    /\ loader' = "done"
    /\ UNCHANGED model_loaded
    /\ UNCHANGED model
    /\ UNCHANGED model_error

\* line 399: self.model_loaded.set() on the failure path
LoadModelFailSignal ==
    /\ loader = "failed"
    /\ model_loaded' = TRUE
    /\ loader' = "done"
    /\ UNCHANGED model
    /\ UNCHANGED model_error

\* the loader is a daemon thread (line 385): it ends with the process
Loader ==
    /\ joined < NumStreams
    /\ \/ LoadModelOk
       \/ LoadModelSignal
       \/ LoadModelFail
       \/ LoadModelFailSignal
    /\ UNCHANGED <<recording, record_process, temp_file, AUTO_TYPE, notifyOk, pc,
                   temp_file_path, segments, outcome, did, fs, proc, procFile, clipboard,
                   nsessions, cur, mine, stage, returned>>

\* ---- helpers of the handler steps ----
Goto(t, l) == pc' = [pc EXCEPT ![t] = l]
SetStage(s, st) == stage' = [stage EXCEPT ![s] = st]
Report(t, msg) == outcome' = [outcome EXCEPT ![t] = msg]
Did(t, what) == did' = [did EXCEPT ![t] = did[t] \cup {what}]
\* a handler is entered: its locals are fresh
EnterHandler(t) ==
    /\ temp_file_path' = [temp_file_path EXCEPT ![t] = NoFile]
    /\ segments' = [segments EXCEPT ![t] = <<>>]
    /\ outcome' = [outcome EXCEPT ![t] = NoOutcome]
    /\ did' = [did EXCEPT ![t] = {}]
\* an exception leaves stop_recording and reaches monitor_device's
\* "except Exception" (line 682): the read loop, and the thread, end
Raise(t) ==
    /\ Goto(t, "dead")
    /\ SetStage(mine[t], "Idle")
    /\ mine' = [mine EXCEPT ![t] = 0]
    /\ UNCHANGED returned
\* stop_recording returns to the read loop
Return(t) ==
    /\ Goto(t, "loop")
    /\ SetStage(mine[t], "Idle")
    /\ mine' = [mine EXCEPT ![t] = 0]
    /\ returned' = returned \cup {mine[t]}

dictationVars == <<recording, record_process, temp_file>>
modelVars == <<model, model_loaded, model_error, loader>>
configVars == <<AUTO_TYPE, notifyOk>>
localVars == <<temp_file_path, segments, outcome, did>>
envVars == <<fs, proc, procFile, clipboard>>
ghostVars == <<nsessions, cur, mine, stage, returned>>
\* everything a handler of a monitor thread can read or write
handlerVars == <<dictationVars, modelVars, configVars, pc, localVars, envVars, ghostVars>>

\* ---- monitor_device (lines 654-683) and start_recording (lines 427-454) ----
\* the hotkey goes down on device t (value 1): lines 663-668, then the guard
\* of start_recording, lines 428-429
\* variant: the guard of start_recording without the model_error test
PressStartsWhileFailed == ~recording
PressStarts == ~recording /\ ~Truthy(model_error)
ReadPress(t) ==
    /\ pc[t] = "loop"
    /\ nsessions + Cardinality({u \in Streams : pc[u] = "start_set"}) < MaxSessions
    /\ IF PressStarts
       THEN Goto(t, "start_set") /\ EnterHandler(t)
       ELSE UNCHANGED <<pc, localVars>>
    /\ UNCHANGED <<dictationVars, modelVars, configVars, envVars, ghostVars>>

\* line 431: self.recording = True; a session begins
StartSet(t) ==
    /\ pc[t] = "start_set"
    /\ recording' = TRUE
    /\ nsessions' = nsessions + 1
    /\ cur' = nsessions + 1
    /\ mine' = [mine EXCEPT ![t] = nsessions + 1]
    /\ SetStage(nsessions + 1, "Recording")
    /\ Goto(t, "start_tmp")
    /\ UNCHANGED <<record_process, temp_file, modelVars, configVars, localVars, envVars,
                   returned>>

\* lines 432-433: a fresh, empty scratch file; self.temp_file names it
StartTmp(t) ==
    /\ pc[t] = "start_tmp"
    /\ fs' = [fs EXCEPT ![mine[t]] = "empty"]
    /\ temp_file' = mine[t]
    /\ Goto(t, "start_spawn")
    /\ UNCHANGED <<recording, record_process, modelVars, configVars, localVars,
                   proc, procFile, clipboard, ghostVars>>

\* lines 436-444: the capture child is spawned on self.temp_file.name (read
\* again from self); the recorder creates or truncates its output file.
\* Popen raising (the recorder cannot be started) leaves start_recording with
\* self.recording still True and ends the read loop (line 682)
StartSpawn(t) ==
    /\ pc[t] = "start_spawn"
    /\ \/ /\ proc' = [proc EXCEPT ![mine[t]] = "running"]
          /\ procFile' = [procFile EXCEPT ![mine[t]] = temp_file]
          /\ fs' = [fs EXCEPT ![temp_file] = "empty"]
          /\ record_process' = mine[t]
          /\ Goto(t, "start_notify")
          /\ UNCHANGED mine
       \/ /\ Goto(t, "dead")
          /\ mine' = [mine EXCEPT ![t] = 0]
          /\ UNCHANGED <<proc, procFile, fs, record_process>>
    /\ UNCHANGED <<recording, temp_file, modelVars, configVars, localVars, clipboard,
                   nsessions, cur, stage, returned>>

\* lines 446-454: notify("Recording..."); start_recording returns, or
\* subprocess.run raises and the exception ends the read loop (line 682)
StartNotify(t) ==
    /\ pc[t] = "start_notify"
    /\ Goto(t, IF notifyOk THEN "loop" ELSE "dead")
    /\ mine' = [mine EXCEPT ![t] = 0]
    /\ UNCHANGED <<dictationVars, modelVars, configVars, localVars, envVars,
                   nsessions, cur, stage, returned>>

\* ---- stop_recording (lines 456-631) ----
\* variant: a release enters stop_recording whatever the recording flag is
ReadReleaseUnguarded(t) ==
    /\ pc[t] = "loop"
    /\ Goto(t, "stop_set") /\ EnterHandler(t)
    /\ UNCHANGED <<dictationVars, modelVars, configVars, envVars, ghostVars>>

\* the hotkey goes up on device t (value 0): lines 669-674, then the guard of
\* stop_recording, lines 457-458
ReadRelease(t) ==
    /\ pc[t] = "loop"
    /\ IF recording
       THEN Goto(t, "stop_set") /\ EnterHandler(t)
       ELSE UNCHANGED <<pc, localVars>>
    /\ UNCHANGED <<dictationVars, modelVars, configVars, envVars, ghostVars>>

\* lines 657-675: one event read from device t. Only an EV_KEY event of the
\* target key code is looked at, value 1 as a press and value 0 as a release;
\* value 2 (repeat) falls through both branches.
Events == [type : {"EV_KEY", "EV_SYN"}, code : {"KEY_F12", "KEY_A"}, value : {0, 1, 2}]
target_key_code == "KEY_F12"
\* variant: a repeat event is taken for a press
ReadEventRepeatPresses(t, event) ==
    IF event.type = "EV_KEY" /\ event.code = target_key_code /\ event.value \in {1, 2}
    THEN ReadPress(t)
    ELSE IF event.type = "EV_KEY" /\ event.code = target_key_code /\ event.value = 0
    THEN ReadRelease(t)
    ELSE pc[t] = "loop" /\ UNCHANGED handlerVars
ReadEvent(t, event) ==
    IF event.type = "EV_KEY" /\ event.code = target_key_code /\ event.value = 1
    THEN ReadPress(t)
    ELSE IF event.type = "EV_KEY" /\ event.code = target_key_code /\ event.value = 0
    THEN ReadRelease(t)
    ELSE pc[t] = "loop" /\ UNCHANGED handlerVars

\* line 460: self.recording = False; the current session is being stopped
StopSet(t) ==
    /\ pc[t] = "stop_set"
    /\ recording' = FALSE
    /\ mine' = [mine EXCEPT ![t] = cur]
    /\ SetStage(cur, "Stopping")
    /\ Goto(t, "stop_sigint")
    /\ UNCHANGED <<record_process, temp_file, modelVars, configVars, localVars, envVars,
                   nsessions, cur, returned>>

\* lines 462-469: if self.record_process: send_signal(SIGINT)
StopSigint(t) ==
    /\ pc[t] = "stop_sigint"
    /\ IF record_process = NoProc
       THEN Goto(t, "stop_notify") /\ UNCHANGED proc
       ELSE /\ Goto(t, "stop_wait")
            /\ proc' = [proc EXCEPT ![record_process] =
                           IF @ = "running" THEN "signalled" ELSE @]
    /\ UNCHANGED <<dictationVars, modelVars, configVars, localVars, fs, procFile,
                   clipboard, ghostVars>>

\* lines 471-474: self.record_process.wait(timeout=2); self.record_process is
\* read again: None raises AttributeError
StopWait(t) ==
    /\ pc[t] = "stop_wait"
    /\ IF record_process = NoProc
       THEN Raise(t) /\ UNCHANGED <<proc, nsessions, cur>>
       ELSE /\ \/ /\ proc[record_process] \in {"signalled", "killed", "exited", "reaped"}
                  /\ proc' = [proc EXCEPT ![record_process] = "reaped"]
                  /\ Goto(t, "stop_clear")
               \/ /\ proc[record_process] \in {"running", "signalled"}
                  /\ Goto(t, "stop_kill")
                  /\ UNCHANGED proc
            /\ UNCHANGED ghostVars
    /\ UNCHANGED <<dictationVars, modelVars, configVars, localVars, fs, procFile,
                   clipboard>>

\* lines 475-476: TimeoutExpired: self.record_process.kill()
StopKill(t) ==
    /\ pc[t] = "stop_kill"
    /\ IF record_process = NoProc
       THEN Raise(t) /\ UNCHANGED <<proc, nsessions, cur>>
       ELSE /\ proc' = [proc EXCEPT ![record_process] =
                           IF @ \in {"running", "signalled"} THEN "killed" ELSE @]
            /\ Goto(t, "stop_reap")
            /\ UNCHANGED ghostVars
    /\ UNCHANGED <<dictationVars, modelVars, configVars, localVars, fs, procFile,
                   clipboard>>

\* line 477: self.record_process.wait() after the kill
StopReap(t) ==
    /\ pc[t] = "stop_reap"
    /\ IF record_process = NoProc
       THEN Raise(t) /\ UNCHANGED <<proc, nsessions, cur>>
       ELSE /\ proc' = [proc EXCEPT ![record_process] = "reaped"]
            /\ Goto(t, "stop_clear")
            /\ UNCHANGED ghostVars
    /\ UNCHANGED <<dictationVars, modelVars, configVars, localVars, fs, procFile,
                   clipboard>>

\* lines 479-482: self.record_process = None
StopClear(t) ==
    /\ pc[t] = "stop_clear"
    /\ record_process' = NoProc
    /\ Goto(t, "stop_notify")
    /\ UNCHANGED <<recording, temp_file, modelVars, configVars, localVars, envVars,
                   ghostVars>>

\* lines 484-487: print("Transcribing..."), notify("Transcribing...")
StopNotify(t) ==
    /\ pc[t] = "stop_notify"
    /\ IF notifyOk
       THEN /\ Goto(t, "stop_model")
            /\ SetStage(mine[t], "Transcribing")
            /\ UNCHANGED <<mine, returned>>
       ELSE Raise(t)
    /\ UNCHANGED <<dictationVars, modelVars, configVars, localVars, envVars,
                   nsessions, cur>>

\* lines 489-495: self.model_loaded.wait(); if self.model_error: report, return
StopModel(t) ==
    /\ pc[t] = "stop_model"
    /\ model_loaded
    /\ IF Truthy(model_error)
       THEN Report(t, MsgModelFailed) /\ Return(t)
       ELSE Goto(t, "stop_init") /\ UNCHANGED <<outcome, mine, stage, returned>>
    /\ UNCHANGED <<dictationVars, modelVars, configVars, temp_file_path, segments, did,
                   envVars, nsessions, cur>>

\* lines 498-508: if not self.model or not self.temp_file: return (through
\* finally); temp_file_path = self.temp_file.name
StopInit(t) ==
    /\ pc[t] = "stop_init"
    /\ IF model = None \/ temp_file = NoFile
       THEN Report(t, MsgUninit) /\ Goto(t, "stop_finally") /\ UNCHANGED temp_file_path
       ELSE /\ temp_file_path' = [temp_file_path EXCEPT ![t] = temp_file]
            /\ Goto(t, "stop_exists")
            /\ UNCHANGED outcome
    /\ UNCHANGED <<dictationVars, modelVars, configVars, segments, did, envVars, ghostVars>>

\* lines 509-512: os.path.exists(temp_file_path)
StopExists(t) ==
    /\ pc[t] = "stop_exists"
    /\ IF fs[temp_file_path[t]] = "absent"
       THEN Report(t, MsgMissing) /\ Goto(t, "stop_finally")
       ELSE Goto(t, "stop_size") /\ UNCHANGED outcome
    /\ UNCHANGED <<dictationVars, modelVars, configVars, temp_file_path, segments, did,
                   envVars, ghostVars>>

\* variant: the size of the file is not tested
StopSizeUnchecked(t) ==
    /\ pc[t] = "stop_size"
    /\ IF fs[temp_file_path[t]] = "absent"
       THEN Report(t, MsgError) /\ Goto(t, "stop_finally")
       ELSE Goto(t, "stop_transcribe") /\ UNCHANGED outcome
    /\ UNCHANGED <<dictationVars, modelVars, configVars, temp_file_path, segments, did,
                   envVars, ghostVars>>

\* lines 514-518: os.path.getsize(temp_file_path); a file removed since line
\* 509 raises OSError, handled at lines 625-627
StopSize(t) ==
    /\ pc[t] = "stop_size"
    /\ IF fs[temp_file_path[t]] = "absent"
       THEN Report(t, MsgError) /\ Goto(t, "stop_finally")
       ELSE IF fs[temp_file_path[t]] = "empty"
       THEN Report(t, MsgEmpty) /\ Goto(t, "stop_finally")
       ELSE Goto(t, "stop_transcribe") /\ UNCHANGED outcome
    /\ UNCHANGED <<dictationVars, modelVars, configVars, temp_file_path, segments, did,
                   envVars, ghostVars>>

\* variant: the text is copied without the test of line 536
StopTranscribeAlwaysCopies(t) ==
    /\ pc[t] = "stop_transcribe"
    /\ \/ /\ Report(t, MsgError)
          /\ Goto(t, "stop_finally")
          /\ did' = [did EXCEPT ![t] = @ \cup {"transcribe"}]
          /\ UNCHANGED segments
       \/ /\ fs[temp_file_path[t]] # "absent"
          /\ \E segs \in SessionSegLists :
                /\ segments' = [segments EXCEPT ![t] = segs]
                /\ did' = [did EXCEPT ![t] = @ \cup {"transcribe", "segments"}]
                /\ Goto(t, "stop_copy")
                /\ UNCHANGED outcome
    /\ UNCHANGED <<dictationVars, modelVars, configVars, temp_file_path, envVars, ghostVars>>

\* lines 520-536 and 619-627: self.model.transcribe(temp_file_path, ...), the
\* segments are consumed by the join of line 534; the service raises, or
\* returns segments: empty text is "No speech detected"
StopTranscribe(t) ==
    /\ pc[t] = "stop_transcribe"
    /\ \/ /\ Report(t, MsgError)
          /\ Goto(t, "stop_finally")
          /\ did' = [did EXCEPT ![t] = @ \cup {"transcribe"}]
          /\ UNCHANGED segments
       \/ /\ fs[temp_file_path[t]] # "absent"
          /\ \E segs \in SessionSegLists :
                /\ segments' = [segments EXCEPT ![t] = segs]
                /\ did' = [did EXCEPT ![t] = @ \cup {"transcribe", "segments"}]
                /\ IF JoinSegments(segs) # <<>>
                   THEN Goto(t, "stop_copy") /\ UNCHANGED outcome
                   ELSE Report(t, MsgNoSpeech) /\ Goto(t, "stop_finally")
    /\ UNCHANGED <<dictationVars, modelVars, configVars, temp_file_path, envVars, ghostVars>>

\* lines 537-539: wl-copy receives the text; Popen raising is handled at
\* lines 625-627
StopCopy(t) ==
    /\ pc[t] = "stop_copy"
    /\ \/ /\ clipboard' = JoinSegments(segments[t])
          /\ Did(t, "copy")
          /\ Goto(t, "stop_type")
          /\ UNCHANGED outcome
       \/ /\ Report(t, MsgError)
          /\ Goto(t, "stop_finally")
          /\ UNCHANGED <<clipboard, did>>
    /\ UNCHANGED <<dictationVars, modelVars, configVars, temp_file_path, segments,
                   fs, proc, procFile, ghostVars>>

\* variant: the typing tool is run whatever AUTO_TYPE is
StopTypeAlwaysInjects(t) ==
    /\ pc[t] = "stop_type"
    /\ \E r \in InjectResults :
          did' = [did EXCEPT ![t] = @ \cup {"inject"} \cup ({r} \ {"ok"})]
    /\ Report(t, MsgCopied)
    /\ Goto(t, "stop_finally")
    /\ UNCHANGED <<dictationVars, modelVars, configVars, temp_file_path, segments,
                   envVars, ghostVars>>

\* lines 541-618: if AUTO_TYPE the typing tool is run: it exits with 0, exits
\* with another code (lines 592-603), or the try of line 544 raises (the tool
\* or dotoold cannot be started, lines 566-575) into the except of line 604;
\* both failures are only printed; then print("Copied: ..."), notify("Copied!")
StopType(t) ==
    /\ pc[t] = "stop_type"
    /\ IF AUTO_TYPE
       THEN \E r \in InjectResults :
               did' = [did EXCEPT ![t] = @ \cup {"inject"} \cup ({r} \ {"ok"})]
       ELSE UNCHANGED did
    /\ Report(t, MsgCopied)
    /\ Goto(t, "stop_finally")
    /\ UNCHANGED <<dictationVars, modelVars, configVars, temp_file_path, segments,
                   envVars, ghostVars>>

\* lines 628-630: finally: if self.temp_file and os.path.exists(its name)
StopFinally(t) ==
    /\ pc[t] = "stop_finally"
    /\ SetStage(mine[t], "Done")
    /\ Goto(t, IF temp_file # NoFile /\ fs[temp_file] # "absent"
               THEN "stop_unlink" ELSE "stop_return")
    /\ UNCHANGED <<dictationVars, modelVars, configVars, localVars, envVars,
                   nsessions, cur, mine, returned>>

\* line 631: os.unlink(self.temp_file.name); a file removed since line 630
\* raises FileNotFoundError out of stop_recording
StopUnlink(t) ==
    /\ pc[t] = "stop_unlink"
    /\ IF fs[temp_file] = "absent"
       THEN Raise(t) /\ UNCHANGED fs
       ELSE fs' = [fs EXCEPT ![temp_file] = "absent"] /\ Return(t)
    /\ UNCHANGED <<dictationVars, modelVars, configVars, localVars, proc, procFile,
                   clipboard, nsessions, cur>>

\* stop_recording returns after a finally that had nothing to delete
StopReturn(t) ==
    /\ pc[t] = "stop_return"
    /\ Return(t)
    /\ UNCHANGED <<dictationVars, modelVars, configVars, localVars, envVars,
                   nsessions, cur>>

\* variant: a read failure on one device ends every stream
DeviceErrorEndsAll(t) ==
    /\ pc[t] = "loop"
    /\ pc' = [u \in Streams |-> "dead"]
    /\ UNCHANGED <<dictationVars, modelVars, configVars, localVars, envVars, ghostVars>>

\* lines 676-681: device.read_loop() raises (permission, device removed)
DeviceError(t) ==
    /\ pc[t] = "loop"
    /\ Goto(t, "dead")
    /\ UNCHANGED <<dictationVars, modelVars, configVars, localVars, envVars, ghostVars>>

\* ---- environment: the capture child writes audio to its output file ----
CaptureWrite(p) ==
    /\ proc[p] = "running"
    /\ fs[procFile[p]] = "empty"
    /\ fs' = [fs EXCEPT ![procFile[p]] = "data"]
    /\ UNCHANGED <<dictationVars, modelVars, configVars, pc, localVars, proc, procFile,
                   clipboard, ghostVars>>

\* lines 697-700: the main thread joins the monitor threads in the order of
\* keyboard_devices; when the last one is joined run_evdev_hotkey returns and
\* the process ends
MainJoin ==
    /\ joined < NumStreams
    /\ pc[joined + 1] = "dead"
    /\ joined' = joined + 1
    /\ UNCHANGED <<dictationVars, modelVars, configVars, pc, localVars, envVars, ghostVars>>

\* the capture child ends on its own (the recorder fails or is killed from
\* outside) and stays unreaped
CaptureExit(p) ==
    /\ proc[p] = "running"
    /\ proc' = [proc EXCEPT ![p] = "exited"]
    /\ UNCHANGED <<dictationVars, modelVars, configVars, pc, localVars, fs, procFile,
                   clipboard, ghostVars>>

Monitor(t) ==
    \/ \E event \in Events : ReadEvent(t, event)
    \/ StartSet(t)
    \/ StartTmp(t)
    \/ StartSpawn(t)
    \/ StartNotify(t)
    \/ StopSet(t)
    \/ StopSigint(t)
    \/ StopWait(t)
    \/ StopKill(t)
    \/ StopReap(t)
    \/ StopClear(t)
    \/ StopNotify(t)
    \/ StopModel(t)
    \/ StopInit(t)
    \/ StopExists(t)
    \/ StopSize(t)
    \/ StopTranscribe(t)
    \/ StopCopy(t)
    \/ StopType(t)
    \/ StopFinally(t)
    \/ StopUnlink(t)
    \/ StopReturn(t)
    \/ DeviceError(t)

Next ==
    \/ Loader /\ UNCHANGED <<joined, textVars, startupVars, discoverVars>>
    \/ \E t \in Streams : Monitor(t) /\ UNCHANGED <<joined, textVars, startupVars, discoverVars>>
    \/ \E p \in Sessions : CaptureWrite(p) /\ UNCHANGED <<joined, textVars, startupVars, discoverVars>>
    \/ \E p \in Sessions : CaptureExit(p) /\ UNCHANGED <<joined, textVars, startupVars, discoverVars>>
    \/ MainJoin /\ UNCHANGED <<textVars, startupVars, discoverVars>>

Spec == Init /\ [][Next]_vars

\* ---- progress ----
\* a step of a handler running on stream t (not the read of an event, which
\* waits for the keyboard)
HandlerStep(t) ==
    \/ StartSet(t)
    \/ StartTmp(t)
    \/ StartSpawn(t)
    \/ StartNotify(t)
    \/ StopSet(t)
    \/ StopSigint(t)
    \/ StopWait(t)
    \/ StopKill(t)
    \/ StopReap(t)
    \/ StopClear(t)
    \/ StopNotify(t)
    \/ StopModel(t)
    \/ StopInit(t)
    \/ StopExists(t)
    \/ StopSize(t)
    \/ StopTranscribe(t)
    \/ StopCopy(t)
    \/ StopType(t)
    \/ StopFinally(t)
    \/ StopUnlink(t)
    \/ StopReturn(t)
\* the loader thread runs on (WhisperModel(...) returns or raises), and every
\* call of a handler returns: wait(timeout=2) is bounded, wait() follows a
\* kill, communicate() and run() end with their child
Fairness ==
    /\ WF_vars(Loader /\ UNCHANGED <<joined, textVars, startupVars, discoverVars>>)
    /\ \A t \in Streams :
          WF_vars(HandlerStep(t) /\ UNCHANGED <<joined, textVars, startupVars, discoverVars>>)
\* progress is checked for the sessions up to MaxLiveSessions: a press is
\* read only while fewer sessions than that were begun
LiveBound ==
    nsessions + Cardinality({u \in Streams : pc'[u] = "start_set"}) <= MaxLiveSessions
NextLive == Next /\ LiveBound
SpecLive == Init /\ [][NextLive]_vars /\ Fairness

\* ---- lines 534-539 on their own: every bounded transcription result ----
InitText ==
    /\ InitSession
    /\ StartupDone
    /\ DiscoverDone
    /\ AUTO_TYPE
    /\ notifyOk
    /\ tpc = "join"
    /\ tsegments \in SegLists
    /\ ttext = <<>>
    /\ tclipboard = NoClip

\* line 534: text = " ".join(segment.text.strip() for segment in segments)
TextJoin ==
    /\ tpc = "join"
    /\ ttext' = JoinSegments(tsegments)
    /\ tpc' = "if_text"
    /\ UNCHANGED <<tsegments, tclipboard>>

\* lines 536-539: if text: wl-copy receives text.encode()
TextCopy ==
    /\ tpc = "if_text"
    /\ IF ttext # <<>>
       THEN tclipboard' = ttext /\ tpc' = "copied"
       ELSE tpc' = "no_speech" /\ UNCHANGED tclipboard
    /\ UNCHANGED <<tsegments, ttext>>

NextText ==
    \/ TextJoin /\ UNCHANGED <<sessionVars, startupVars, discoverVars>>
    \/ TextCopy /\ UNCHANGED <<sessionVars, startupVars, discoverVars>>

SpecText == InitText /\ [][NextText]_vars

\* ---- startup: module import (lines 100-237), main (lines 760-804) and ----
\* ---- Dictation.__init__ (lines 359-385)                                ----
\* keys of backend_map (lines 106-110)
backend_map == {"parecord", "pw-record", "arecord"}
\* variant: auto-detection tries arecord first
CandidatesReversed == <<"arecord", "pw-record", "parecord">>
\* the list of the auto-detection loop (lines 120-124)
Candidates == <<"parecord", "pw-record", "arecord">>
\* values of CONFIG["audio_backend"] (line 102): "auto", a key of backend_map,
\* or any other name
Overrides == {"auto", "parecord", "pw-record", "arecord", "sox"}
\* executables the startup code looks up with which
Executables == {"parecord", "pw-record", "arecord", "wl-copy", "wtype", "dotool"}
\* subprocess.run(["which", cmd], capture_output=True).returncode == 0
which(cmd) == cmd \in onPath

\* the fields of self and the threads before Dictation() is constructed
fieldVars == <<recording, record_process, temp_file, model, model_loaded, model_error,
               AUTO_TYPE, notifyOk, temp_file_path, segments, outcome, did,
               fs, proc, procFile, clipboard, nsessions, cur, mine, stage, returned, joined>>
InitStartup ==
    /\ recording = FALSE
    /\ record_process = NoProc
    /\ temp_file = NoFile
    /\ model = None
    /\ model_loaded = FALSE
    /\ model_error = None
    /\ AUTO_TYPE \in BOOLEAN
    /\ notifyOk = TRUE
    /\ loader = "off"
    /\ pc = [t \in Streams |-> "off"]
    /\ temp_file_path = [t \in Streams |-> NoFile]
    /\ segments = [t \in Streams |-> <<>>]
    /\ outcome = [t \in Streams |-> NoOutcome]
    /\ did = [t \in Streams |-> {}]
    /\ fs = [f \in Sessions |-> "absent"]
    /\ proc = [p \in Sessions |-> "none"]
    /\ procFile = [p \in Sessions |-> NoFile]
    /\ clipboard = NoClip
    /\ nsessions = 0
    /\ cur = 0
    /\ mine = [t \in Streams |-> 0]
    /\ stage = [s \in Sessions |-> "Idle"]
    /\ returned = {}
    /\ joined = 0
    /\ TextIdle
    /\ DiscoverDone
    /\ config_backend \in Overrides
    /\ onPath \in SUBSET Executables
    /\ kwin \in BOOLEAN
    /\ dotoold \in {"running", "startable", "down"}
    /\ evdev \in {"ok", "bad_key", "no_keyboard"}
    /\ spc = "detect_audio"
    /\ idx = 1
    /\ AUDIO_BACKEND = None
    /\ CLIPBOARD_TOOL = None
    /\ TYPING_TOOL = None
    /\ warned = FALSE
    /\ exit_code = 0

\* detect_audio_backend, lines 102-117: the configured override
AudioOverride ==
    /\ spc = "detect_audio"
    /\ IF config_backend # "auto" /\ config_backend \in backend_map
       THEN IF which(config_backend)
            THEN /\ AUDIO_BACKEND' = config_backend
                 /\ spc' = "detect_clipboard"
                 /\ UNCHANGED warned
            ELSE /\ warned' = TRUE
                 /\ spc' = "auto_detect"
                 /\ UNCHANGED AUDIO_BACKEND
       ELSE /\ spc' = "auto_detect"
            /\ UNCHANGED <<AUDIO_BACKEND, warned>>
    /\ UNCHANGED <<config_backend, onPath, kwin, dotoold, evdev, idx, CLIPBOARD_TOOL,
                   TYPING_TOOL, exit_code>>

\* detect_audio_backend, lines 120-128: one turn of the auto-detection loop,
\* or return (None, None) after the last candidate
AudioAuto ==
    /\ spc = "auto_detect"
    /\ IF idx > Len(Candidates)
       THEN AUDIO_BACKEND' = None /\ spc' = "detect_clipboard" /\ UNCHANGED idx
       ELSE IF which(Candidates[idx])
       THEN AUDIO_BACKEND' = Candidates[idx] /\ spc' = "detect_clipboard" /\ UNCHANGED idx
       ELSE idx' = idx + 1 /\ UNCHANGED <<AUDIO_BACKEND, spc>>
    /\ UNCHANGED <<config_backend, onPath, kwin, dotoold, evdev, CLIPBOARD_TOOL,
                   TYPING_TOOL, warned, exit_code>>

\* detect_clipboard_tool (lines 134-139), called at line 236
DetectClipboard ==
    /\ spc = "detect_clipboard"
    /\ CLIPBOARD_TOOL' = IF which("wl-copy") THEN "wl-copy" ELSE None
    /\ spc' = "detect_typing"
    /\ UNCHANGED <<config_backend, onPath, kwin, dotoold, evdev, idx, AUDIO_BACKEND,
                   TYPING_TOOL, warned, exit_code>>

\* detect_typing_tool (lines 154-233): dotool under KWin when dotoold runs or
\* can be started, wtype outside KWin, then dotool again
detect_typing_tool ==
    IF kwin /\ which("dotool") /\ dotoold # "down" THEN "dotool"
    ELSE IF which("wtype") /\ ~kwin THEN "wtype"
    ELSE IF which("dotool") /\ dotoold # "down" THEN "dotool"
    ELSE None
\* line 237; the start attempt of lines 172-177 or 211-216 leaves a daemon
\* that can be started running
DetectTyping ==
    /\ spc = "detect_typing"
    /\ TYPING_TOOL' = detect_typing_tool
    /\ dotoold' = IF detect_typing_tool = "dotool" THEN "running" ELSE dotoold
    /\ spc' = "main"
    /\ UNCHANGED <<config_backend, onPath, kwin, evdev, idx, AUDIO_BACKEND,
                   CLIPBOARD_TOOL, warned, exit_code>>

\* sys.exit(1)
Exit1 == spc' = "exit" /\ exit_code' = 1

\* main, lines 772-776: if not is_kwin_wayland(): sys.exit(1)
MainKwin ==
    /\ spc = "main"
    /\ IF ~kwin THEN Exit1 ELSE spc' = "check_dependencies" /\ UNCHANGED exit_code
    /\ UNCHANGED <<config_backend, onPath, kwin, dotoold, evdev, idx, AUDIO_BACKEND,
                   CLIPBOARD_TOOL, TYPING_TOOL, warned>>

\* check_dependencies (lines 712-757), called at line 778
CheckDependencies ==
    /\ spc = "check_dependencies"
    /\ IF \/ ~\E cmd \in {"parecord", "pw-record", "arecord"} : which(cmd)
          \/ ~which("wl-copy")
          \/ AUTO_TYPE /\ ~\E cmd \in {"wtype", "dotool"} : which(cmd)
       THEN Exit1
       ELSE spc' = "load_evdev" /\ UNCHANGED exit_code
    /\ UNCHANGED <<config_backend, onPath, kwin, dotoold, evdev, idx, AUDIO_BACKEND,
                   CLIPBOARD_TOOL, TYPING_TOOL, warned>>

\* main, lines 781-793: _load_evdev_keyboard raises for no keyboard (line 284)
\* or an unsupported key name (line 322)
LoadEvdev ==
    /\ spc = "load_evdev"
    /\ IF evdev # "ok" THEN Exit1 ELSE spc' = "init" /\ UNCHANGED exit_code
    /\ UNCHANGED <<config_backend, onPath, kwin, dotoold, evdev, idx, AUDIO_BACKEND,
                   CLIPBOARD_TOOL, TYPING_TOOL, warned>>

\* variant: a missing typing tool is fatal whatever AUTO_TYPE is
DictationInitTypingAlwaysFatal ==
    /\ spc = "init"
    /\ IF AUDIO_BACKEND = None \/ CLIPBOARD_TOOL = None \/ TYPING_TOOL = None
       THEN Exit1 /\ UNCHANGED loader
       ELSE loader' = "load" /\ spc' = "run" /\ UNCHANGED exit_code
    /\ UNCHANGED <<config_backend, onPath, kwin, dotoold, evdev, idx, AUDIO_BACKEND,
                   CLIPBOARD_TOOL, TYPING_TOOL, warned>>

\* Dictation.__init__ (line 795, lines 359-385): the three sys.exit(1), then
\* the loader thread is started
DictationInit ==
    /\ spc = "init"
    /\ IF \/ AUDIO_BACKEND = None
          \/ CLIPBOARD_TOOL = None
          \/ AUTO_TYPE /\ TYPING_TOOL = None
       THEN Exit1 /\ UNCHANGED loader
       ELSE loader' = "load" /\ spc' = "run" /\ UNCHANGED exit_code
    /\ UNCHANGED <<config_backend, onPath, kwin, dotoold, evdev, idx, AUDIO_BACKEND,
                   CLIPBOARD_TOOL, TYPING_TOOL, warned>>

\* run_evdev_hotkey (line 804, lines 685-695): one monitor thread per keyboard
RunHotkey ==
    /\ spc = "run"
    /\ pc' = [t \in Streams |-> "loop"]
    /\ spc' = "monitoring"
    /\ UNCHANGED <<config_backend, onPath, kwin, dotoold, evdev, idx, AUDIO_BACKEND,
                   CLIPBOARD_TOOL, TYPING_TOOL, warned, exit_code>>

NextStartup ==
    \/ AudioOverride /\ UNCHANGED <<fieldVars, loader, pc, textVars, discoverVars>>
    \/ AudioAuto /\ UNCHANGED <<fieldVars, loader, pc, textVars, discoverVars>>
    \/ DetectClipboard /\ UNCHANGED <<fieldVars, loader, pc, textVars, discoverVars>>
    \/ DetectTyping /\ UNCHANGED <<fieldVars, loader, pc, textVars, discoverVars>>
    \/ MainKwin /\ UNCHANGED <<fieldVars, loader, pc, textVars, discoverVars>>
    \/ CheckDependencies /\ UNCHANGED <<fieldVars, loader, pc, textVars, discoverVars>>
    \/ LoadEvdev /\ UNCHANGED <<fieldVars, loader, pc, textVars, discoverVars>>
    \/ DictationInit /\ UNCHANGED <<fieldVars, pc, textVars, discoverVars>>
    \/ RunHotkey /\ UNCHANGED <<fieldVars, loader, textVars, discoverVars>>

SpecStartup == InitStartup /\ [][NextStartup]_vars

\* ---- keyboard discovery: _load_evdev_keyboard (lines 259-339) ----
\* names of input devices, as sequences of characters
DeviceNames == {
    <<"A", "T", " ", "K", "e", "y", "b", "o", "a", "r", "d">>,
    <<"L", "o", "g", "i", " ", "M", "X">>,
    <<"V", "i", "r", "t", "u", "a", "l", " ", "K", "e", "y", "b", "o", "a", "r", "d">>,
    <<"P", "o", "w", "e", "r", " ", "B", "u", "t", "t", "o", "n">> }
\* CONFIG["preferred_keyboard"]: empty by default, or part of a device name
Hints == { <<>>, <<"L", "o", "g", "i">>, <<"b", "o", "a", "r", "d">> }
\* line 263
virtual_keywords == <<<<"d", "o", "t", "o", "o", "l">>,
                      <<"u", "i", "n", "p", "u", "t">>,
                      <<"v", "i", "r", "t", "u", "a", "l">>,
                      <<"t", "e", "s", "t", " ", "d", "e", "v", "i", "c", "e">>>>
\* the word tested at line 297
keyboardWord == <<"k", "e", "y", "b", "o", "a", "r", "d">>
\* dev.capabilities(): EV_KEY absent, or present with a number of key codes
Capabilities == {[has_key |-> FALSE, nkeys |-> 0]} \cup
                {[has_key |-> TRUE, nkeys |-> n] : n \in 1..2}
Devices == {[name |-> n, caps |-> c] : n \in DeviceNames, c \in Capabilities}

\* str.lower() for the letters that occur in the names
lowerChar(c) ==
    CASE c = "A" -> "a" [] c = "B" -> "b" [] c = "K" -> "k" [] c = "L" -> "l"
      [] c = "M" -> "m" [] c = "P" -> "p" [] c = "T" -> "t" [] c = "V" -> "v"
      [] c = "X" -> "x" [] OTHER -> c
lower(str) == [i \in 1..Len(str) |-> lowerChar(str[i])]
\* sub in str
startswith(str, sub) == Len(sub) <= Len(str) /\ SubSeq(str, 1, Len(sub)) = sub
RECURSIVE contains(_, _)
contains(str, sub) ==
    IF startswith(str, sub) THEN TRUE
    ELSE IF str = <<>> THEN FALSE
    ELSE contains(Tail(str), sub)

InitDiscover ==
    /\ InitSession
    /\ TextIdle
    /\ StartupDone
    /\ devices \in SeqsUpTo(Devices, MaxDevices)
    /\ preferred_keyboard \in Hints
    /\ keyboards = <<>>
    /\ monitored = <<>>
    /\ dpc = "filter"

\* lines 266-274: EV_KEY in caps, and no virtual keyword in the lowered name
is_virtual(i) ==
    \E j \in 1..Len(virtual_keywords) : contains(lower(devices[i].name), virtual_keywords[j])
is_keyboard(i) == devices[i].caps.has_key /\ ~is_virtual(i)
\* lines 289-297: the hint is tested only when it is not empty
is_preferred(i) ==
    LET preferred_keyboard_name == lower(preferred_keyboard)
    IN preferred_keyboard_name # <<>> /\ contains(lower(devices[i].name), preferred_keyboard_name)
has_keyboard_in_name(i) == contains(lower(devices[i].name), keyboardWord)
\* variant: the name of the device is not looked at for the word "keyboard"
sort_keyIgnoresName(i) ==
    <<IF is_preferred(i) THEN 0 ELSE 1, 0, 0 - devices[i].caps.nkeys>>
\* line 300: (not is_preferred, not has_keyboard_in_name, -key_count)
sort_key(i) ==
    <<IF is_preferred(i) THEN 0 ELSE 1,
      IF has_keyboard_in_name(i) THEN 0 ELSE 1,
      0 - devices[i].caps.nkeys>>
\* order of Python tuples
tupleLess(a, b) ==
    \/ a[1] < b[1]
    \/ a[1] = b[1] /\ a[2] < b[2]
    \/ a[1] = b[1] /\ a[2] = b[2] /\ a[3] < b[3]
\* list.sort(key=sort_key): stable, equal keys keep their order
RECURSIVE insert(_, _)
insert(x, sorted) ==
    IF sorted = <<>> THEN <<x>>
    ELSE IF tupleLess(sort_key(x), sort_key(Head(sorted))) THEN <<x>> \o sorted
    ELSE <<Head(sorted)>> \o insert(x, Tail(sorted))
RECURSIVE sort(_)
sort(list) ==
    IF list = <<>> THEN <<>>
    ELSE insert(list[Len(list)], sort(SubSeq(list, 1, Len(list) - 1)))

\* lines 260-277: the loop over the devices; a device is named by its place
\* in the list of list_devices()
DiscoverFilter ==
    /\ dpc = "filter"
    /\ keyboards' = SelectSeq([i \in 1..Len(devices) |-> i], is_keyboard)
    /\ dpc' = "check"
    /\ UNCHANGED <<devices, preferred_keyboard, monitored>>

\* lines 279-286: no keyboard raises RuntimeError
DiscoverCheck ==
    /\ dpc = "check"
    /\ dpc' = IF keyboards = <<>> THEN "raised" ELSE "sort"
    /\ UNCHANGED <<devices, preferred_keyboard, keyboards, monitored>>

\* lines 288-302: keyboards.sort(key=sort_key)
DiscoverSort ==
    /\ dpc = "sort"
    /\ keyboards' = sort(keyboards)
    /\ dpc' = "return"
    /\ UNCHANGED <<devices, preferred_keyboard, monitored>>

\* lines 326-339 and 685-695: every device of the list is returned, and
\* run_evdev_hotkey starts a monitor thread for each
DiscoverReturn ==
    /\ dpc = "return"
    /\ monitored' = keyboards
    /\ dpc' = "done"
    /\ UNCHANGED <<devices, preferred_keyboard, keyboards>>

NextDiscover ==
    \/ DiscoverFilter /\ UNCHANGED <<sessionVars, textVars, startupVars>>
    \/ DiscoverCheck /\ UNCHANGED <<sessionVars, textVars, startupVars>>
    \/ DiscoverSort /\ UNCHANGED <<sessionVars, textVars, startupVars>>
    \/ DiscoverReturn /\ UNCHANGED <<sessionVars, textVars, startupVars>>

SpecDiscover == InitDiscover /\ [][NextDiscover]_vars

(***************************************************************************)
(* Properties                                                              *)
(***************************************************************************)
StopPcs == {"stop_set", "stop_sigint", "stop_wait", "stop_kill", "stop_reap", "stop_clear",
            "stop_notify", "stop_model", "stop_init", "stop_exists", "stop_size",
            "stop_transcribe", "stop_copy", "stop_type", "stop_finally", "stop_unlink",
            "stop_return"}
StartPcs == {"start_set", "start_tmp", "start_spawn", "start_notify"}
NonIdle == {s \in Sessions : stage[s] # "Idle"}
Active == {s \in Sessions : stage[s] \in {"Recording", "Stopping", "Transcribing"}}

\* C1: at most one session is in a non-Idle stage (Recording, Stopping or
\* Transcribing) at any time, whatever the interleaving of the streams.
C1_SingleActiveSession == Cardinality(Active) <= 1

\* C2: every session moves Idle -> Recording -> Stopping -> Transcribing ->
\* Done -> Idle, one stage at a time and in that order, and no session is
\* created while another one is Recording.
StageOrder == {<<"Idle", "Recording">>, <<"Recording", "Stopping">>,
               <<"Stopping", "Transcribing">>, <<"Transcribing", "Done">>,
               <<"Done", "Idle">>}
C2_Step ==
    /\ \A s \in Sessions : stage'[s] # stage[s] => <<stage[s], stage'[s]>> \in StageOrder
    /\ nsessions' # nsessions => \A s \in Sessions : stage[s] # "Recording"
C2_StagesInOrder == [][C2_Step]_vars

\* C3: once stop_recording has returned for a session, the scratch file that
\* session created no longer exists, whichever way the handler was left.
C3_ScratchGoneAfterSession == \A s \in returned : fs[s] = "absent"

\* C4: a session is in the Transcribing stage (model wait, validation,
\* transcription) only when its capture child has been spawned and reaped.
C4_CaptureReapedBeforeTranscribing ==
    \A s \in Sessions : stage[s] = "Transcribing" => proc[s] = "reaped"

\* C5: a scratch file found missing at the existence check, or of size zero at
\* the size check, ends the pass with the validation outcome (not the
\* exception outcome "Error"): from there the handler only runs its cleanup,
\* the transcription service, the clipboard and the typing tool are not used,
\* and the session is Idle when the handler is left.
ValidationFailures == {MsgMissing, MsgEmpty}
C5_Step ==
    \A t \in Streams :
        /\ (pc[t] = "stop_exists" /\ pc'[t] # pc[t] /\ fs[temp_file_path[t]] = "absent")
              => (outcome'[t] = MsgMissing /\ pc'[t] = "stop_finally")
        /\ (pc[t] = "stop_size" /\ pc'[t] # pc[t] /\ fs[temp_file_path[t]] = "empty")
              => (outcome'[t] = MsgEmpty /\ pc'[t] = "stop_finally")
        /\ (outcome[t] \in ValidationFailures /\ pc[t] \in StopPcs)
              => /\ outcome'[t] = outcome[t]
                 /\ did'[t] = {}
                 /\ pc'[t] \in {"stop_finally", "stop_unlink", "stop_return", "loop", "dead"}
                 /\ pc'[t] \in {"loop", "dead"} => stage'[mine[t]] = "Idle"
C5_ValidationFailure == [][C5_Step]_vars
C5_Witness ==
    \E t \in Streams : pc[t] = "loop" /\ outcome[t] = MsgEmpty /\ did[t] = {} /\ NonIdle = {}

\* C6: when the transcription service returns no segments the pass reports
\* "No speech detected" and uses neither the clipboard nor the typing tool.
C6_NoSegmentsNoSpeech ==
    \A t \in Streams :
        ("segments" \in did[t] /\ segments[t] = <<>>)
            => (outcome[t] = MsgNoSpeech /\ "copy" \notin did[t] /\ "inject" \notin did[t])
C6_Witness ==
    \E t \in Streams :
        pc[t] = "loop" /\ "segments" \in did[t] /\ segments[t] = <<>> /\ clipboard = NoClip

\* C7: the text written to the clipboard is the segments in their order, each
\* without its leading and trailing whitespace, with exactly one space between
\* neighbours.
NonWs(s) == {i \in 1..Len(s) : s[i] \notin Whitespace}
Lowest(S) == CHOOSE i \in S : \A j \in S : i <= j
Highest(S) == CHOOSE i \in S : \A j \in S : j <= i
Trimmed(s) == IF NonWs(s) = {} THEN <<>> ELSE SubSeq(s, Lowest(NonWs(s)), Highest(NonWs(s)))
RECURSIVE Offset(_, _)
Offset(segs, i) == IF i = 1 THEN 0 ELSE Offset(segs, i - 1) + Len(Trimmed(segs[i - 1])) + 1
IsJoinedText(text, segs) ==
    /\ segs # <<>>
    /\ Len(text) = Offset(segs, Len(segs)) + Len(Trimmed(segs[Len(segs)]))
    /\ \A i \in 1..Len(segs) :
          /\ \A k \in 1..Len(Trimmed(segs[i])) : text[Offset(segs, i) + k] = Trimmed(segs[i])[k]
          /\ i > 1 => text[Offset(segs, i)] = " "
C7_ClipboardText == tpc = "copied" => IsJoinedText(tclipboard, tsegments)
C7_Witness ==
    /\ tpc = "copied"
    /\ tsegments = << <<" ", "a">>, <<"a", "\n">> >>
    /\ tclipboard = <<"a", " ", "a">>

\* C8: when the loader has signalled a failure, the pass that waited for the
\* model returns at once, after its session's capture child was reaped, having
\* used neither the transcription service nor the clipboard, and what it
\* reports is the stored failure reason.
C8_Step ==
    \A t \in Streams :
        (pc[t] = "stop_model" /\ pc'[t] # pc[t] /\ model_error # None)
            => /\ proc[mine[t]] = "reaped"
               /\ pc'[t] = "loop"
               /\ did'[t] = {}
               /\ clipboard' = clipboard
               /\ outcome'[t] = model_error
C8_ModelFailureShortCircuits == [][C8_Step]_vars

\* C9: a press while no session is recording starts one while the model is
\* loading or ready, never once the loader has recorded a failure, and
\* start_recording never waits: the only wait for the model is in
\* stop_recording.
MayPress(t) ==
    /\ pc[t] = "loop"
    /\ nsessions + Cardinality({u \in Streams : pc[u] = "start_set"}) < MaxSessions
C9_State ==
    \A t \in Streams :
        /\ (MayPress(t) /\ ~recording /\ model_error = None) => ENABLED <<ReadPress(t)>>_pc
        /\ pc[t] \in StartPcs => ENABLED Monitor(t)
C9_Step ==
    \A t \in Streams : (pc[t] = "loop" /\ pc'[t] = "start_set") => model_error = None
C10_State ==
    /\ ~(model # None /\ model_error # None)
    /\ model_loaded => (model # None) # (model_error # None)
C10_Step ==
    /\ model_loaded => model_loaded'
    /\ model # None => model' = model
    /\ model_error # None => model_error' = model_error
    /\ loader # "load" => loader' # "load"
    /\ loader = "done" => loader' = "done"
C10_OneShotSignal == []C10_State /\ [][C10_Step]_vars
C10_Witness == model_loaded /\ model_error # None /\ model = None /\ loader = "done"

\* C11: with a non-empty text and auto-type enabled, a typing tool that exits
\* non-zero or raises changes nothing: the clipboard was written before, the
\* pass reports "Copied!" and not "Error", it is not left by an exception, and
\* the scratch file of its session is gone when it returns.
InjectFailed(t) == did[t] \cap {"exit_nonzero", "raised"} # {}
C11_Step ==
    \A t \in Streams :
        /\ (pc[t] = "stop_type" /\ pc'[t] # pc[t] /\ AUTO_TYPE)
              => ("copy" \in did[t] /\ outcome'[t] = MsgCopied /\ pc'[t] = "stop_finally")
        /\ (InjectFailed(t) /\ pc[t] \in StopPcs)
              => /\ outcome'[t] = MsgCopied
                 /\ pc'[t] # "dead"
                 /\ pc'[t] = "loop" => fs'[mine[t]] = "absent"
C11_InjectionFailureHarmless == [][C11_Step]_vars

\* C12: a notification that cannot be delivered changes nothing: after
\* notify("Recording...") start_recording returns to the read loop, and after
\* notify("Transcribing...") stop_recording goes on to the model wait with its
\* session in the Transcribing stage, whether or not notify-send can be run.
C12_Step ==
    \A t \in Streams :
        /\ (pc[t] = "start_notify" /\ pc'[t] # pc[t]) => pc'[t] = "loop"
        /\ (pc[t] = "stop_notify" /\ pc'[t] # pc[t])
              => (pc'[t] = "stop_model" /\ stage'[mine[t]] = "Transcribing")
C12_NotifyFailureHarmless == [][C12_Step]_vars

\* C13: no error raised inside start_recording or stop_recording ends the
\* read loop of the stream that delivered the event: a stream that is inside
\* a handler is never dead at the next step.
HandlerPcs == StartPcs \cup StopPcs
C13_Step == \A t \in Streams : pc[t] \in HandlerPcs => pc'[t] # "dead"
C13_HandlerErrorsKeepLoop == [][C13_Step]_vars

\* C14: a read failure on one keyboard ends only that device's stream: the
\* step changes nothing but that stream's position, every stream that is
\* still reading can deliver a press that starts a session and a release
\* that stops one, and run_evdev_hotkey has returned (the process has ended)
\* only when no stream is alive.
C14_Step ==
    \A t \in Streams :
        (pc[t] = "loop" /\ pc'[t] = "dead")
            => /\ \A u \in Streams \ {t} : pc'[u] = pc[u]
               /\ UNCHANGED <<dictationVars, modelVars, configVars, localVars, envVars,
                              ghostVars>>
C14_State ==
    /\ joined = NumStreams => \A t \in Streams : pc[t] = "dead"
    /\ \A u \in Streams :
          /\ (MayPress(u) /\ PressStarts) => ENABLED <<ReadPress(u)>>_pc
          /\ (pc[u] = "loop" /\ recording) => ENABLED <<ReadRelease(u)>>_pc
C14_DeviceFailureIsolated == []C14_State /\ [][C14_Step]_vars
C14_Witness ==
    /\ pc[1] = "dead"
    /\ joined = 1
    /\ outcome[1] = NoOutcome
    /\ notifyOk
    /\ nsessions = 1
    /\ pc[NumStreams] = "loop"
    /\ outcome[NumStreams] = MsgCopied

\* C15: for every configured override and every set of executables on PATH,
\* the committed audio backend is the override when it is a known backend that
\* is resolvable, otherwise the resolvable candidate that comes first in the
\* order parecord, pw-record, arecord, and none exactly when no candidate is
\* resolvable.
PriorityOf(c) == CASE c = "parecord" -> 1 [] c = "pw-record" -> 2 [] c = "arecord" -> 3
Resolvable == {"parecord", "pw-record", "arecord"} \cap onPath
FirstResolvable ==
    IF Resolvable = {} THEN None
    ELSE CHOOSE c \in Resolvable : \A d \in Resolvable : PriorityOf(c) <= PriorityOf(d)
AudioDetected == spc \notin {"detect_audio", "auto_detect"}
C15_BackendSelection ==
    AudioDetected =>
        /\ AUDIO_BACKEND =
              IF config_backend \in {"parecord", "pw-record", "arecord"} /\ config_backend \in onPath
              THEN config_backend
              ELSE FirstResolvable
        /\ (AUDIO_BACKEND = None) = (Resolvable = {})
C15_Witness ==
    /\ spc = "detect_clipboard"
    /\ config_backend = "parecord"
    /\ Resolvable = {"pw-record", "arecord"}
    /\ AUDIO_BACKEND = "pw-record"

\* C16: an override that names an executable that is not resolvable, known
\* backend or not, falls back to the auto-detection order with a warning, and
\* a warning was printed whenever an override other than "auto" is not the
\* committed backend.
C16_OverrideWarning ==
    AudioDetected =>
        /\ (config_backend # "auto" /\ config_backend \notin onPath)
              => (AUDIO_BACKEND = FirstResolvable /\ warned)
        /\ (config_backend # "auto" /\ AUDIO_BACKEND # config_backend) => warned

\* C17 as stated: startup ends with exit code 1, the loader not started and
\* no stream monitored, exactly when there is no audio backend, no clipboard
\* tool, auto-type without a committed typing tool, an unsupported hotkey
\* name or no usable keyboard.
FatalListed ==
    \/ AUDIO_BACKEND = None
    \/ CLIPBOARD_TOOL = None
    \/ AUTO_TYPE /\ TYPING_TOOL = None
    \/ evdev = "bad_key"
    \/ evdev = "no_keyboard"
C17_Original ==
    /\ spc = "exit" => FatalListed
    /\ spc \in {"run", "monitoring"} => ~FatalListed

\* C17: startup ends with exit code 1, before the loader thread is started
\* and before any stream is monitored, exactly when KWin is not running or
\* one of the listed preconditions fails; a missing typing tool is not fatal
\* when auto-type is off.
C17_StartupFatal ==
    /\ spc = "exit" => /\ ~kwin \/ FatalListed
                       /\ exit_code = 1
                       /\ loader = "off"
                       /\ \A t \in Streams : pc[t] = "off"
    /\ spc \in {"run", "monitoring"} => (kwin /\ ~FatalListed /\ exit_code = 0)
    /\ loader # "off" => spc \in {"run", "monitoring"}
    /\ (\E t \in Streams : pc[t] # "off") => spc = "monitoring"
C17_Witness ==
    /\ spc = "exit"
    /\ kwin
    /\ AUTO_TYPE
    /\ TYPING_TOOL = None
    /\ "wtype" \in onPath
    /\ AUDIO_BACKEND # None
    /\ CLIPBOARD_TOOL # None
    /\ evdev = "ok"

\* C18: two releases for one session give one pass through the work of
\* stop_recording: the pass that goes beyond line 460 takes a session that no
\* other pass has taken (it is still Recording), so the second release is a
\* no-op, and the capture child is sent the interrupt signal once.
C18_Step ==
    \A t \in Streams :
        /\ (pc[t] = "stop_set" /\ pc'[t] # pc[t]) => stage[cur] = "Recording"
        /\ (pc[t] = "stop_sigint" /\ pc'[t] = "stop_wait") => proc[record_process] = "running"
C18_OneStopPass == [][C18_Step]_vars

\* C19: a session only touches its own scratch file: the capture child of a
\* session writes the file that session created, the file a pass validates
\* and transcribes and the file its finally block deletes is the file of the
\* session it stops, and it is not a file that the capture child of another
\* session is still writing.
ReadPcs == {"stop_exists", "stop_size", "stop_transcribe"}
Writers(f) == {q \in Sessions : proc[q] \in {"running", "signalled"} /\ procFile[q] = f}
C19_ScratchFileOwned ==
    /\ \A p \in Sessions : proc[p] # "none" => procFile[p] = p
    /\ \A t \in Streams :
          /\ pc[t] \in ReadPcs
                => (temp_file_path[t] = mine[t] /\ Writers(temp_file_path[t]) \subseteq {mine[t]})
          /\ pc[t] = "stop_unlink"
                => (temp_file = mine[t] /\ Writers(temp_file) \subseteq {mine[t]})

\* C20: an ignored event changes nothing: while the recording flag is set a
\* press read by a stream changes no field of the object, no local of the
\* stream, no file, no child process and no session, and while the flag is
\* clear a release read by a stream changes none of them either.
C20_IgnoredEventNoEffect ==
    \A t \in Streams :
        pc[t] = "loop" =>
            /\ recording => ~ENABLED <<ReadPress(t)>>_handlerVars
            /\ ~recording => ~ENABLED <<ReadRelease(t)>>_handlerVars
C20_Witness ==
    /\ recording
    /\ \A t \in Streams : pc[t] = "loop"
    /\ MayPress(1)
    /\ record_process = cur
    /\ proc[cur] = "running"
    /\ fs[cur] = "data"

\* C21: the pass that finds a capture handle sends the interrupt signal first
\* and goes on to the bounded wait, also when the child had already exited;
\* the kill comes only after a wait that expired on a child that was
\* signalled and has not exited, the kill is followed by the wait that reaps
\* the child, and none of these steps is left by an exception.
CapturePcs == {"stop_sigint", "stop_wait", "stop_kill", "stop_reap"}
C21_Step ==
    \A t \in Streams :
        /\ (pc[t] = "stop_sigint" /\ pc'[t] # pc[t] /\ record_process # NoProc)
              => /\ pc'[t] = "stop_wait"
                 /\ proc'[record_process] \in {"signalled", "exited", "reaped"}
        /\ (pc[t] # "stop_kill" /\ pc'[t] = "stop_kill")
              => (pc[t] = "stop_wait" /\ proc[record_process] = "signalled")
        /\ (pc[t] = "stop_kill" /\ pc'[t] # pc[t]) => pc'[t] = "stop_reap"
        /\ (pc[t] = "stop_reap" /\ pc'[t] # pc[t])
              => (pc'[t] = "stop_clear" /\ proc'[record_process] = "reaped")
        /\ pc[t] \in CapturePcs => pc'[t] # "dead"
C21_GracefulThenKill == [][C21_Step]_vars

\* C22: in a pass with a non-empty text the typing tool is run only after
\* wl-copy has received the text, and only when auto-type is enabled: with
\* auto-type disabled no pass runs the typing tool.
C22_CopyBeforeInject ==
    \A t \in Streams :
        /\ "inject" \in did[t] => (AUTO_TYPE /\ "copy" \in did[t])
        /\ pc[t] = "stop_type" => ("copy" \in did[t] /\ "inject" \notin did[t])
        /\ InjectFailed(t) => "inject" \in did[t]
C22_Witness ==
    \E t \in Streams :
        /\ ~AUTO_TYPE
        /\ pc[t] = "loop"
        /\ outcome[t] = MsgCopied
        /\ "copy" \in did[t]
        /\ "inject" \notin did[t]
        /\ clipboard # NoClip

\* C23: the devices monitored are exactly the devices with key capability
\* whose name contains no virtual marker, each once; they are ordered by name
\* contains the hint, then name contains "keyboard", then more key codes
\* first; an empty hint prefers no device; and discovery fails exactly when
\* there is no such device.
Occurs(sub, str) ==
    \E k \in 0..(Len(str) - Len(sub)) : \A i \in 1..Len(sub) : str[k + i] = sub[i]
NameOf(i) == lower(devices[i].name)
Eligible ==
    {i \in 1..Len(devices) :
        /\ devices[i].caps.has_key
        /\ \A j \in 1..Len(virtual_keywords) : ~Occurs(virtual_keywords[j], NameOf(i))}
Hinted(i) == preferred_keyboard # <<>> /\ Occurs(lower(preferred_keyboard), NameOf(i))
NamedKeyboard(i) == Occurs(<<"k", "e", "y", "b", "o", "a", "r", "d">>, NameOf(i))
InRankOrder(x, y) ==
    /\ Hinted(y) => Hinted(x)
    /\ (Hinted(x) = Hinted(y) /\ NamedKeyboard(y)) => NamedKeyboard(x)
    /\ (Hinted(x) = Hinted(y) /\ NamedKeyboard(x) = NamedKeyboard(y))
          => devices[x].caps.nkeys >= devices[y].caps.nkeys
C23_KeyboardDiscovery ==
    /\ dpc \in {"sort", "return", "done"}
          => {keyboards[a] : a \in 1..Len(keyboards)} = Eligible
    /\ dpc = "raised" => Eligible = {}
    /\ dpc = "done" =>
          /\ {monitored[a] : a \in 1..Len(monitored)} = Eligible
          /\ Len(monitored) = Cardinality(Eligible)
          /\ Eligible # {}
          /\ \A a, b \in 1..Len(monitored) : a < b => InRankOrder(monitored[a], monitored[b])
C23_Witness ==
    /\ dpc = "done"
    /\ Len(devices) = 3
    /\ preferred_keyboard = <<"L", "o", "g", "i">>
    /\ devices[1].name = <<"V", "i", "r", "t", "u", "a", "l", " ", "K", "e", "y", "b", "o", "a", "r", "d">>
    /\ devices[1].caps.has_key
    /\ devices[2].name = <<"A", "T", " ", "K", "e", "y", "b", "o", "a", "r", "d">>
    /\ monitored = <<3, 2>>

\* C24: an event that is not a key event of the hotkey with value 1 or 0
\* reaches no handler: reading it changes no field, no local of a stream, no
\* file, no child process and no session, so repeat events during a hold
\* never start or stop a session.
IsHotkeyEdge(event) ==
    event.type = "EV_KEY" /\ event.code = "KEY_F12" /\ event.value \in {0, 1}
C24_OnlyEdgesReachHandlers ==
    \A t \in Streams : \A event \in Events :
        (pc[t] = "loop" /\ ~IsHotkeyEdge(event)) => ~ENABLED <<ReadEvent(t, event)>>_handlerVars
C24_Witness ==
    /\ ~recording
    /\ ~Truthy(model_error)
    /\ \A t \in Streams : pc[t] = "loop"
    /\ nsessions = 1
    /\ stage[1] = "Idle"
    /\ ENABLED <<ReadEvent(1, [type |-> "EV_KEY", code |-> "KEY_F12", value |-> 1])>>_handlerVars
    /\ ENABLED ReadEvent(1, [type |-> "EV_KEY", code |-> "KEY_F12", value |-> 2])

\* C25: under SpecLive a session whose release handler has begun always
\* comes back to Idle, and a release handler that has begun always leaves
\* stop_recording, in particular it never stays at the wait for the
\* readiness signal, whether the load succeeds or fails.
C25_ReleasedSessionEnds ==
    /\ \A s \in Sessions : (stage[s] = "Stopping") ~> (stage[s] = "Idle")
    /\ \A t \in Streams : (pc[t] = "stop_model") ~> (pc[t] # "stop_model")
    /\ \A t \in Streams : (pc[t] \in StopPcs) ~> (pc[t] \in {"loop", "dead"})
C25_Witness ==
    \E t \in Streams :
        /\ pc[t] = "loop"
        /\ outcome[t] = MsgModelFailed
        /\ loader = "done"
        /\ 1 \in returned
        /\ stage[1] = "Idle"

\* C26: whenever the recording flag is clear and every stream is in its read
\* loop or ended, no capture child is still running; and the capture handle
\* changes only when it is None or names a child that has been reaped.
C26_State ==
    (~recording /\ \A t \in Streams : pc[t] \in {"loop", "dead"})
        => \A p \in Sessions : proc[p] \notin {"running", "signalled"}
C26_Step ==
    record_process' # record_process
        => (record_process = NoProc \/ proc[record_process] = "reaped")
C26_NoOrphanedCapture == []C26_State /\ [][C26_Step]_vars

\* C27: the text written to the clipboard has a character that is not
\* whitespace; when every segment of the result is empty or all whitespace
\* the pass ends with "no speech detected" and the clipboard is not written.
IsBlank(str) == \A i \in 1..Len(str) : str[i] \in Whitespace
C27_ClipboardNeverBlank ==
    /\ tpc = "copied" => ~IsBlank(tclipboard)
    /\ (tpc \in {"copied", "no_speech"} /\ \A i \in 1..Len(tsegments) : IsBlank(tsegments[i]))
          => (tpc = "no_speech" /\ tclipboard = NoClip)

====
